---- MODULE Spec2Model ----
(***************************************************************************)
(* Multithreaded TCP key-value server: BlockingQueue, ThreadPool,          *)
(* LineReader, serve_client and Server::start / Server::stop.              *)
(*                                                                         *)
(* Every critical section of BlockingQueue runs under mu_, so each one is  *)
(* one step.  A thread suspended in condition_variable::wait is a member   *)
(* of the condition variable's wait set; notify_one / notify_all remove    *)
(* members, and a removed member re-acquires mu_ and re-evaluates the wait *)
(* predicate in its next step.                                             *)
(***************************************************************************)
EXTENDS Integers, Sequences, FiniteSets, TLC

\* ---------------------------------------------------------------- bounds
\* Server configuration (constructor arguments of Server).
threads_ == 1
MaxConnsCap == 2
queue_cap_ == 1
\* Connections the clients attempt during one run of Server::start.
NumConns == 3
\* Command lines counted in total_requests_ during one run.
MaxRequests == 1
\* BlockingQueue harness: capacity, producers, consumers, push calls made.
QCap == 2
NumProducers == 2
NumConsumers == 2
MaxPushes == 3
\* ThreadPool harness: concurrent callers of stop, submitting threads, submit
\* calls made.
NumStopCallers == 2
NumSubmitters == 1
MaxSubmits == 2
\* LineReader: max_line_ and sizeof(tmp), scaled down together (8192 and 4096
\* in the program); the peer sends at most MaxStream bytes.
\* KVStore: connections whose commands run concurrently, commands issued.
NumHandlers == 2
MaxCommands == 3
max_line_ == 2
TmpSize == 2
MaxStream == max_line_ + TmpSize + 2

\* ---------------------------------------------------------------- threads
Acc == <<"acceptor", 0>>
Stopper == <<"stop", 0>>
Workers == {<<"worker", i>> : i \in 1..threads_}
Producers == {<<"producer", i>> : i \in 1..NumProducers}
Consumers == {<<"consumer", i>> : i \in 1..NumConsumers}
Closer == <<"closer", 0>>
PoolOwner == <<"owner", 0>>
StopCallers == {<<"stopcaller", i>> : i \in 1..NumStopCallers}
Submitters == {<<"submitter", i>> : i \in 1..NumSubmitters}
Threads ==
  {Acc, Stopper, Closer, PoolOwner} \cup Workers \cup Producers \cup Consumers
    \cup StopCallers \cup Submitters

\* Accepted connection handles, numbered in accept order.
Conns == 1..NumConns
NewConn == [closes |-> 0, decA |-> 0, decS |-> 0, rejected |-> "no"]
NewServe == [ended |-> "no"]
\* Connections issuing store commands; keys and values; an absent value; no
\* command in execution.
Handlers == 1..NumHandlers
KVKeys == {"k", "j"}
KVValues == {"v", "w"}
NoValue == "nullopt"
NoCommand == [verb |-> "", key |-> "", value |-> NoValue, pre |-> 0, at |-> 0]

VARIABLES
  \* BlockingQueue<T>
  capacity_, q_, closed_, cv_not_full_, cv_not_empty_,
  \* per thread: position, optional<T> returned by its last pop, bool
  \* returned by its last push
  pc, job, ok,
  \* harness: whether the thread's current queue call has been suspended
  suspended,
  \* history of the queue: items in the order their push / pop succeeded
  pushed, popped,
  \* harness: push calls started; per thread, whether its current submit was
  \* called after some ThreadPool::stop call had returned
  npush, after_stop,
  \* server.cpp globals: g_running, g_listen_fd, g_active_strict, and the two
  \* counters of g_stats
  g_running, g_listen_fd, g_active_strict, active_, total_requests_,
  \* ThreadPool: running_, workers_ (the threads spawned and not yet joined)
  running_, workers_,
  \* Server::max_conns_ and the locals of Server::start
  max_conns_, listen_fd, client_fd, now,
  \* the listening socket in the kernel ("none", "open", "closed") and the
  \* number of close() calls made on its descriptor
  lsock, nlclose,
  \* connections accepted so far; per connection: close() calls, dec_active
  \* and fetch_sub calls made for it, the rejection the acceptor wrote to it
  nextConn, conn,
  \* per worker, how the serve_client call it runs ended
  serve,
  \* jobs destroyed unexecuted with the queue
  discarded,
  \* LineReader::buffer_, the bytes recv has delivered so far, the position
  \* of the thread calling read_line, the values its calls have returned
  buffer_, received, lr_pc, out,
  \* serve_client on one connection: its position, and for every value
  \* read_line returned to it, what it did with the value; what the
  \* send_str of the banner returned ("none" before the call)
  h_pc, handled, banner,
  \* KVStore::map_; per connection, the position of its handle_command call
  \* and the command it executes; the store operations in the order they
  \* took effect
  map_, kv_pc, kv_cmd, log,
  \* main.cpp's serve_client on the same connection input: its position,
  \* and what it did with every value read_line returned to it
  m_pc, m_handled

cvars == <<h_pc, handled, banner>>
kvars == <<map_, kv_pc, kv_cmd, log>>
mvars == <<m_pc, m_handled>>
lvars == <<buffer_, received, lr_pc, out, cvars, kvars, mvars>>
qvars == <<lvars, capacity_, q_, closed_, cv_not_full_, cv_not_empty_>>
tvars == <<pc, job, ok>>
hvars == <<pushed, popped>>
xvars == <<npush, suspended, after_stop>>
gvars == <<g_running, g_listen_fd, g_active_strict, active_, total_requests_>>
pvars == <<running_, workers_>>
avars == <<listen_fd, client_fd, now>>
evars == <<max_conns_, lsock, nlclose, nextConn, conn, serve, discarded>>
svars == <<gvars, pvars, avars, evars>>
vars == <<qvars, tvars, hvars, xvars, svars>>

\* ---------------------------------------------------------------- BlockingQueue
NotFullPred == closed_ \/ Len(q_) < capacity_
NotEmptyPred == closed_ \/ q_ # <<>>

notify_one_not_empty ==
  IF cv_not_empty_ = {} THEN cv_not_empty_' = cv_not_empty_
  ELSE \E w \in cv_not_empty_ : cv_not_empty_' = cv_not_empty_ \ {w}

\* pop without its notification.
notify_one_not_full_none == cv_not_full_' = cv_not_full_

notify_one_not_full ==
  IF cv_not_full_ = {} THEN cv_not_full_' = cv_not_full_
  ELSE \E w \in cv_not_full_ : cv_not_full_' = cv_not_full_ \ {w}

\* The item push appends and where it appends it.
PushItem_front(item) == <<item>> \o q_
PushItem(item) == Append(q_, item)

\* push without its closed_ test.
push_ignoring_closed(t, item, r) ==
  /\ t \notin cv_not_full_
  /\ IF ~NotFullPred
       THEN /\ r = "wait"
            /\ cv_not_full_' = cv_not_full_ \cup {t}
            /\ UNCHANGED <<lvars, capacity_, q_, closed_, cv_not_empty_, ok, pushed>>
       ELSE IF Len(q_) >= capacity_
         THEN /\ r = "false"
              /\ ok' = [ok EXCEPT ![t] = FALSE]
              /\ UNCHANGED <<qvars, pushed>>
         ELSE /\ r = "true"
              /\ q_' = PushItem(item)
              /\ notify_one_not_empty
              /\ ok' = [ok EXCEPT ![t] = TRUE]
              /\ pushed' = Append(pushed, item)
              /\ UNCHANGED <<lvars, capacity_, closed_, cv_not_full_>>

\* bool push(T item): one pass of thread t through the critical section.
\* r = "wait": the predicate is false and t suspends on cv_not_full_;
\* r = "false" / "true": the value push returns.
push(t, item, r) ==
  /\ t \notin cv_not_full_
  /\ IF ~NotFullPred
       THEN /\ r = "wait"
            /\ cv_not_full_' = cv_not_full_ \cup {t}
            /\ UNCHANGED <<lvars, capacity_, q_, closed_, cv_not_empty_, ok, pushed>>
       ELSE IF closed_
         THEN /\ r = "false"
              /\ ok' = [ok EXCEPT ![t] = FALSE]
              /\ UNCHANGED <<qvars, pushed>>
         ELSE /\ r = "true"
              /\ q_' = PushItem(item)
              /\ notify_one_not_empty
              /\ ok' = [ok EXCEPT ![t] = TRUE]
              /\ pushed' = Append(pushed, item)
              /\ UNCHANGED <<lvars, capacity_, closed_, cv_not_full_>>

\* What pop takes from a non-empty queue, and what it leaves.
PopFront == Head(q_)
PopRest_kept == q_
PopRest == Tail(q_)

\* std::optional<T> pop(): one pass of thread t through the critical section.
\* r = "wait": t suspends on cv_not_empty_; r = "none": nullopt;
\* r = "item": the front item, left in job[t].
pop(t, r) ==
  /\ t \notin cv_not_empty_
  /\ IF ~NotEmptyPred
       THEN /\ r = "wait"
            /\ cv_not_empty_' = cv_not_empty_ \cup {t}
            /\ UNCHANGED <<lvars, capacity_, q_, closed_, cv_not_full_, job, popped>>
       ELSE IF q_ = <<>>
         THEN /\ r = "none"
              /\ job' = [job EXCEPT ![t] = <<>>]
              /\ UNCHANGED <<qvars, popped>>
         ELSE /\ r = "item"
              /\ job' = [job EXCEPT ![t] = <<PopFront>>]
              /\ q_' = PopRest
              /\ notify_one_not_full
              /\ popped' = Append(popped, PopFront)
              /\ UNCHANGED <<lvars, capacity_, closed_, cv_not_empty_>>

\* close that would wake only the consumers.
close_consumers_only ==
  /\ closed_' = TRUE
  /\ cv_not_empty_' = {}
  /\ UNCHANGED <<lvars, capacity_, q_, cv_not_full_>>

\* void close()
close ==
  /\ closed_' = TRUE
  /\ cv_not_empty_' = {}
  /\ cv_not_full_' = {}
  /\ UNCHANGED <<lvars, capacity_, q_>>

\* condition_variable::wait may return without a notification; the thread
\* then re-evaluates its predicate like a notified one.
SpuriousWakeup(t) ==
  /\ t \in cv_not_full_ \cup cv_not_empty_
  /\ cv_not_full_' = cv_not_full_ \ {t}
  /\ cv_not_empty_' = cv_not_empty_ \ {t}
  /\ UNCHANGED <<lvars, capacity_, q_, closed_, tvars, hvars, xvars, svars>>

\* ---------------------------------------------------------------- queue harness
\* Producers push, consumers pop, a closer closes: every interleaving of
\* concurrent push, pop and close calls on one queue.  Items are opaque to
\* the queue; the harness numbers them in the order their push succeeds.
NextItem == Len(pushed) + 1

ProducerCall(t) ==
  /\ t \in Producers /\ pc[t] = "idle" /\ npush < MaxPushes
  /\ pc' = [pc EXCEPT ![t] = "push"]
  /\ npush' = npush + 1
  /\ suspended' = [suspended EXCEPT ![t] = FALSE]
  /\ UNCHANGED <<qvars, job, ok, hvars, after_stop, svars>>

ProducerPush(t) ==
  /\ t \in Producers /\ pc[t] = "push"
  /\ \E r \in {"wait", "false", "true"} :
       /\ push(t, NextItem, r)
       /\ pc' = [pc EXCEPT ![t] = IF r = "wait" THEN "push" ELSE "idle"]
       /\ suspended' = [suspended EXCEPT ![t] = @ \/ r = "wait"]
  /\ UNCHANGED <<job, popped, npush, after_stop, svars>>

ConsumerCall(t) ==
  /\ t \in Consumers /\ pc[t] = "idle"
  /\ pc' = [pc EXCEPT ![t] = "pop"]
  /\ suspended' = [suspended EXCEPT ![t] = FALSE]
  /\ job' = [job EXCEPT ![t] = <<>>]
  /\ UNCHANGED <<qvars, ok, hvars, npush, after_stop, svars>>

ConsumerPop(t) ==
  /\ t \in Consumers /\ pc[t] = "pop"
  /\ \E r \in {"wait", "none", "item"} :
       /\ pop(t, r)
       /\ pc' = [pc EXCEPT ![t] = CASE r = "wait" -> "pop"
                                    [] r = "none" -> "done"
                                    [] r = "item" -> "idle"]
       /\ suspended' = [suspended EXCEPT ![t] = @ \/ r = "wait"]
  /\ UNCHANGED <<ok, pushed, npush, after_stop, svars>>

\* close may be called any number of times.
CloserClose ==
  /\ close
  /\ UNCHANGED <<tvars, hvars, xvars, svars>>

InitCommon ==
  /\ q_ = <<>> /\ closed_ = FALSE
  /\ cv_not_full_ = {} /\ cv_not_empty_ = {}
  /\ pc = [t \in Threads |-> "idle"]
  /\ job = [t \in Threads |-> <<>>]
  /\ ok = [t \in Threads |-> FALSE]
  /\ suspended = [t \in Threads |-> FALSE]
  /\ pushed = <<>> /\ popped = <<>>
  /\ npush = 0
  /\ after_stop = [t \in Threads |-> FALSE]
  /\ g_running = FALSE /\ g_listen_fd = "-1" /\ g_active_strict = 0
  /\ active_ = 0 /\ total_requests_ = 0
  /\ running_ = FALSE /\ workers_ = {}
  /\ listen_fd = "-1" /\ client_fd = 0 /\ now = 0
  /\ lsock = "none" /\ nlclose = 0
  /\ nextConn = 0
  /\ conn = [c \in Conns |-> NewConn]
  /\ serve = [w \in Workers |-> NewServe]
  /\ discarded = {}
  /\ buffer_ = <<>> /\ received = <<>> /\ lr_pc = "idle" /\ out = <<>>
  /\ h_pc = "idle" /\ handled = <<>> /\ banner = "none"
  /\ map_ = [key \in KVKeys |-> NoValue]
  /\ kv_pc = [h \in Handlers |-> "idle"]
  /\ kv_cmd = [h \in Handlers |-> NoCommand]
  /\ log = <<>>
  /\ m_pc = "idle" /\ m_handled = <<>>

InitQ == InitCommon /\ capacity_ = QCap /\ max_conns_ = 1

NextQ ==
  \/ \E t \in Producers : ProducerCall(t)
  \/ \E t \in Producers : ProducerPush(t)
  \/ \E t \in Consumers : ConsumerCall(t)
  \/ \E t \in Consumers : ConsumerPop(t)
  \/ CloserClose
  \/ \E t \in Producers \cup Consumers : SpuriousWakeup(t)

SpecQ == InitQ /\ [][NextQ]_vars

\* Scheduling: a thread inside push or pop that is not suspended on a
\* condition variable eventually gets the mutex and takes its step.  Nothing
\* is assumed of the callers: no call of push, pop or close need be made, and
\* no wake-up need be spurious.
FairnessQ ==
  /\ \A t \in Producers : WF_vars(ProducerPush(t))
  /\ \A t \in Consumers : WF_vars(ConsumerPop(t))

FairSpecQ == SpecQ /\ FairnessQ

\* ---------------------------------------------------------------- ThreadPool
Goto(t, p) == pc' = [pc EXCEPT ![t] = p]
Alive(w) == pc[w] \notin {"idle", "exited"}

\* ThreadPool::start: running_ is set and threads_ workers are spawned.
\* `back` is where the caller t continues.
pool_start(t, back) ==
  /\ running_' = TRUE
  /\ workers_' = Workers
  /\ pc' = [x \in Threads |-> IF x \in Workers THEN "w_check"
                              ELSE IF x = t THEN back ELSE pc[x]]

\* Worker thread, line 13: while (running_.load())
WorkerCheck(w) ==
  /\ w \in Workers /\ pc[w] = "w_check"
  /\ Goto(w, IF running_ THEN "w_pop" ELSE "exited")
  /\ UNCHANGED <<qvars, job, ok, hvars, xvars, svars>>

\* Worker thread, lines 14-15: auto job = q_.pop(); if (!job) break;
WorkerPop(w) ==
  /\ w \in Workers /\ pc[w] = "w_pop"
  /\ \E r \in {"wait", "none", "item"} :
       /\ pop(w, r)
       /\ Goto(w, CASE r = "wait" -> "w_pop"
                    [] r = "none" -> "exited"
                    [] r = "item" -> "w_run")
  /\ UNCHANGED <<ok, pushed, xvars, svars>>

\* ThreadPool::stop, line 23: if (!running_.exchange(false)) return;
\* `back` is where the caller continues when stop returns.
pool_stop_exchange(t, back) ==
  /\ running_' = FALSE
  /\ Goto(t, IF running_ THEN "ps_close" ELSE back)
  /\ UNCHANGED workers_

\* ThreadPool::stop, line 25: q_.close();
pool_stop_close(t) ==
  /\ close
  /\ Goto(t, "ps_join")

\* ThreadPool::stop, lines 27-31: join every worker, then workers_.clear().
pool_stop_join(t, back) ==
  /\ \A w \in workers_ : pc[w] = "exited"
  /\ workers_' = {}
  /\ Goto(t, back)
  /\ UNCHANGED running_

\* ---------------------------------------------------------------- LineReader
\* Bytes a peer can send.  Texts are scaled to one character as max_line_ is
\* scaled: STAR stands for the text of the sentinel, "q" for the verb quit.
CR == "\r"
LF == "\n"
STAR == "*"
Bytes == {"q", STAR, CR, LF}
LINE_TOO_LONG == <<STAR>>

\* std::optional<std::string>
NullOpt == [has_value |-> FALSE, value |-> <<>>]
Some(s) == [has_value |-> TRUE, value |-> s]

\* line 21: buffer_.find('\n'), as a 1-based index; 0 is npos.
find_LF(s) ==
  IF \E i \in 1..Len(s) : s[i] = LF
  THEN CHOOSE i \in 1..Len(s) : s[i] = LF /\ \A j \in 1..(i - 1) : s[j] # LF
  ELSE 0

\* line 25: if (!line.empty() && line.back() == '\r') line.pop_back();
StripCR_none(line) == line
StripCR(line) ==
  IF line # <<>> /\ line[Len(line)] = CR THEN SubSeq(line, 1, Len(line) - 1)
  ELSE line

\* lines 23-27, for a buffer holding '\n' at pos: the value returned.
TakeLine(pos) ==
  LET line == StripCR(SubSeq(buffer_, 1, pos - 1))
  IN  IF Len(line) > max_line_ THEN LINE_TOO_LONG ELSE line

\* The calling thread stops calling after nullopt or the sentinel, as
\* serve_client does.
LRReturn(r) ==
  /\ out' = Append(out, r)
  /\ lr_pc' = IF r = NullOpt \/ r = Some(LINE_TOO_LONG) THEN "end" ELSE "idle"

LROther ==
  UNCHANGED <<cvars, kvars, mvars, capacity_, q_, closed_, cv_not_full_,
              cv_not_empty_, tvars, hvars, xvars, svars>>

\* read_line is called.
LRCall ==
  /\ lr_pc = "idle"
  /\ lr_pc' = "find"
  /\ UNCHANGED <<buffer_, received, out>>
  /\ LROther

\* lines 20-28: with a '\n' in buffer_ the line before it is cut out and
\* returned; without one the thread goes on to recv.
LRFind ==
  /\ lr_pc = "find"
  /\ LET pos == find_LF(buffer_)
     IN  IF pos # 0
         THEN /\ buffer_' = SubSeq(buffer_, pos + 1, Len(buffer_))
              /\ LRReturn(Some(TakeLine(pos)))
         ELSE /\ lr_pc' = "recv"
              /\ UNCHANGED <<buffer_, out>>
  /\ UNCHANGED received
  /\ LROther

\* lines 31, 37-41: recv delivers 1..sizeof(tmp) bytes, which are appended;
\* a buffer_ larger than max_line_ + sizeof(tmp) returns the sentinel.
LRRecv ==
  /\ lr_pc = "recv"
  /\ \E n \in 1..TmpSize :
       /\ Len(received) + n <= MaxStream
       /\ \E tmp \in [1..n -> Bytes] :
            /\ received' = received \o tmp
            /\ buffer_' = buffer_ \o tmp
            /\ IF Len(buffer_') > max_line_ + TmpSize
               THEN LRReturn(Some(LINE_TOO_LONG))
               ELSE lr_pc' = "find" /\ UNCHANGED out
  /\ LROther

\* lines 32-36: recv fails (EINTR: retry; any other error: nullopt) or
\* reports end of stream (nullopt).
LRRecvNone ==
  /\ lr_pc = "recv"
  /\ \E r \in {"EINTR", "error", "eof"} :
       IF r = "EINTR" THEN lr_pc' = "find" /\ UNCHANGED out
       ELSE LRReturn(NullOpt)
  /\ UNCHANGED <<buffer_, received>>
  /\ LROther

InitLR == InitCommon /\ capacity_ = queue_cap_ /\ max_conns_ = 1

NextLR == LRCall \/ LRFind \/ LRRecv \/ LRRecvNone

SpecLR == InitLR /\ [][NextLR]_vars

\* ------------------------------------------------------- ThreadPool harness
\* One pool used through its public interface: the owner starts it or leaves
\* it unstarted, then stop and submit are called from any threads, in any
\* interleaving.  Jobs are opaque and return.
PoolDecided == pc[PoolOwner] # "idle"
StopReturned == \E s \in StopCallers : pc[s] = "stopped"

PoolOwnerStart ==
  /\ pc[PoolOwner] = "idle"
  /\ pool_start(PoolOwner, "started")
  /\ UNCHANGED <<qvars, job, ok, hvars, xvars, gvars, avars, evars>>

PoolOwnerSkip ==
  /\ pc[PoolOwner] = "idle"
  /\ Goto(PoolOwner, "unstarted")
  /\ UNCHANGED <<qvars, job, ok, hvars, xvars, svars>>

PoolStopExchange(s) ==
  /\ s \in StopCallers /\ pc[s] = "idle" /\ PoolDecided
  /\ pool_stop_exchange(s, "stopped")
  /\ UNCHANGED <<qvars, job, ok, hvars, xvars, gvars, avars, evars>>

PoolStopClose(s) ==
  /\ s \in StopCallers /\ pc[s] = "ps_close"
  /\ pool_stop_close(s)
  /\ UNCHANGED <<job, ok, hvars, xvars, svars>>

PoolStopJoin(s) ==
  /\ s \in StopCallers /\ pc[s] = "ps_join"
  /\ pool_stop_join(s, "stopped")
  /\ UNCHANGED <<qvars, job, ok, hvars, xvars, gvars, avars, evars>>

\* ThreadPool::submit, line 34: return q_.push(std::move(job));
PoolSubmitCall(t) ==
  /\ t \in Submitters /\ pc[t] = "idle" /\ PoolDecided /\ npush < MaxSubmits
  /\ Goto(t, "push")
  /\ npush' = npush + 1
  /\ ok' = [ok EXCEPT ![t] = FALSE]
  /\ after_stop' = [after_stop EXCEPT ![t] = StopReturned]
  /\ UNCHANGED <<qvars, job, hvars, suspended, svars>>

PoolSubmit(t) ==
  /\ t \in Submitters /\ pc[t] = "push"
  /\ \E r \in {"wait", "false", "true"} :
       /\ push(t, NextItem, r)
       /\ Goto(t, IF r = "wait" THEN "push" ELSE "idle")
  /\ UNCHANGED <<job, popped, xvars, svars>>

\* Worker thread, line 16: (*job)();
JobRun(w) ==
  /\ w \in Workers /\ pc[w] = "w_run"
  /\ Goto(w, "w_check")
  /\ job' = [job EXCEPT ![w] = <<>>]
  /\ UNCHANGED <<qvars, ok, hvars, xvars, svars>>

InitPool == InitCommon /\ capacity_ = queue_cap_ /\ max_conns_ = 1

NextPool ==
  \/ PoolOwnerStart
  \/ PoolOwnerSkip
  \/ \E s \in StopCallers : PoolStopExchange(s)
  \/ \E s \in StopCallers : PoolStopClose(s)
  \/ \E s \in StopCallers : PoolStopJoin(s)
  \/ \E t \in Submitters : PoolSubmitCall(t)
  \/ \E t \in Submitters : PoolSubmit(t)
  \/ \E w \in Workers : WorkerCheck(w)
  \/ \E w \in Workers : WorkerPop(w)
  \/ \E w \in Workers : JobRun(w)
  \/ \E t \in Workers \cup Submitters : SpuriousWakeup(t)

SpecPool == InitPool /\ [][NextPool]_vars

\* ---------------------------------------------------------------- serve_client
Served(w) == job[w][1]
ConnSet(c, f, v) == [conn EXCEPT ![c] = [@ EXCEPT ![f] = v]]

\* The job's closing statements (lambda of Server::start, lines 194-196).
JobAfterServe_noclose == "j_dec_active"
JobAfterServe == "j_close"

\* serve_client lines 85-88: LineReader lr(8192); the banner is sent and the
\* result of send_str is dropped.
ServeBanner(w) ==
  /\ w \in Workers /\ pc[w] = "w_run"
  /\ serve' = [serve EXCEPT ![w] = NewServe]
  /\ Goto(w, "j_loop")
  /\ UNCHANGED <<qvars, job, ok, hvars, xvars, gvars, pvars, avars,
                 lsock, nlclose, max_conns_, nextConn, conn, discarded>>

ServeEnd(w, how) == [serve EXCEPT ![w] = [@ EXCEPT !.ended = how]]

\* serve_client line 90: while (g_running.load())
ServeLoop(w) ==
  /\ w \in Workers /\ pc[w] = "j_loop"
  /\ IF g_running
       THEN Goto(w, "j_read") /\ UNCHANGED serve
       ELSE Goto(w, JobAfterServe) /\ serve' = ServeEnd(w, "stopped")
  /\ UNCHANGED <<qvars, job, ok, hvars, xvars, gvars, pvars, avars,
                 lsock, nlclose, max_conns_, nextConn, conn, discarded>>

\* serve_client line 92: read_line returned nullopt (client closed, or error).
ServeDisconnect(w) ==
  /\ w \in Workers /\ pc[w] = "j_read"
  /\ serve' = ServeEnd(w, "disconnect")
  /\ Goto(w, JobAfterServe)
  /\ UNCHANGED <<qvars, job, ok, hvars, xvars, gvars, pvars, avars,
                 lsock, nlclose, max_conns_, nextConn, conn, discarded>>

\* serve_client lines 96-99: the oversize marker; "ERR line too long" is sent.
ServeOversize(w) ==
  /\ w \in Workers /\ pc[w] = "j_read"
  /\ serve' = ServeEnd(w, "oversize")
  /\ Goto(w, JobAfterServe)
  /\ UNCHANGED <<qvars, job, ok, hvars, xvars, gvars, pvars, avars,
                 lsock, nlclose, max_conns_, nextConn, conn, discarded>>

\* serve_client line 100: an empty line.
ServeEmpty(w) ==
  /\ w \in Workers /\ pc[w] = "j_read"
  /\ Goto(w, "j_loop")
  /\ UNCHANGED <<serve, qvars, job, ok, hvars, xvars, gvars, pvars, avars,
                 lsock, nlclose, max_conns_, nextConn, conn, discarded>>

\* serve_client lines 102-107: a command line; resp is handle_command's
\* reply ("OK bye" for QUIT), sent_ok the result of send_str.
ServeCommand(w) ==
  /\ w \in Workers /\ pc[w] = "j_read"
  /\ total_requests_ < MaxRequests
  /\ total_requests_' = total_requests_ + 1
  /\ \E resp \in {"OK bye", "reply"}, sent_ok \in BOOLEAN :
       /\ serve' = ServeEnd(w, IF ~sent_ok THEN "write failed"
                               ELSE IF resp = "OK bye" THEN "quit" ELSE "no")
       /\ Goto(w, IF sent_ok /\ resp # "OK bye" THEN "j_loop" ELSE JobAfterServe)
  /\ UNCHANGED <<qvars, job, ok, hvars, xvars, g_running,
                 g_listen_fd, g_active_strict, active_, pvars, avars,
                 lsock, nlclose, max_conns_, nextConn, conn, discarded>>

\* Job lambda line 194: ::close(client_fd);
JobClose(w) ==
  /\ w \in Workers /\ pc[w] = "j_close"
  /\ conn' = ConnSet(Served(w), "closes", conn[Served(w)].closes + 1)
  /\ serve' = [serve EXCEPT ![w] = NewServe]
  /\ Goto(w, "j_dec_active")
  /\ UNCHANGED <<qvars, job, ok, hvars, xvars, gvars, pvars, avars,
                 lsock, nlclose, max_conns_, nextConn, discarded>>

\* Job lambda line 195: g_stats.dec_active();
JobDecActive(w) ==
  /\ w \in Workers /\ pc[w] = "j_dec_active"
  /\ active_' = active_ - 1
  /\ conn' = ConnSet(Served(w), "decA", conn[Served(w)].decA + 1)
  /\ Goto(w, "j_dec_strict")
  /\ UNCHANGED <<qvars, job, ok, hvars, xvars, g_running,
                 g_listen_fd, g_active_strict, total_requests_, pvars, avars,
                 lsock, nlclose, max_conns_, nextConn, serve, discarded>>

\* Job lambda line 196: the value fetch_sub(1) leaves in g_active_strict.
StrictAfterJob_leaked(n) == n
StrictAfterJob(n) == n - 1

\* Job lambda line 196: g_active_strict.fetch_sub(1); the job returns, the
\* iteration of the worker loop ends and its local `job` is destroyed.
JobDecStrict(w) ==
  /\ w \in Workers /\ pc[w] = "j_dec_strict"
  /\ g_active_strict' = StrictAfterJob(g_active_strict)
  /\ conn' = ConnSet(Served(w), "decS", conn[Served(w)].decS + 1)
  /\ job' = [job EXCEPT ![w] = <<>>]
  /\ Goto(w, "w_check")
  /\ UNCHANGED <<qvars, ok, hvars, xvars, g_running,
                 g_listen_fd, active_, total_requests_, pvars, avars,
                 lsock, nlclose, max_conns_, nextConn, serve, discarded>>

\* ---------------------------------------------------------------- Server::start
AccIdle == UNCHANGED <<qvars, job, ok, hvars, xvars>>

\* lines 119-121: g_running.store(true)
StartSetRunning ==
  /\ pc[Acc] = "idle"
  /\ g_running' = TRUE
  /\ Goto(Acc, "socket")
  /\ AccIdle
  /\ UNCHANGED <<g_listen_fd, g_active_strict, active_, total_requests_,
                 pvars, avars, evars>>

\* lines 123-127: ::socket(); on failure start returns false.
StartSocket ==
  /\ pc[Acc] = "socket"
  /\ \/ /\ listen_fd' = "lfd" /\ lsock' = "open"
        /\ Goto(Acc, "publish")
     \/ /\ UNCHANGED <<listen_fd, lsock>>
        /\ Goto(Acc, "ret_false")
  /\ AccIdle
  /\ UNCHANGED <<gvars, pvars, client_fd, now, nlclose, max_conns_, nextConn, conn, serve, discarded>>

\* line 129: g_listen_fd.store(listen_fd)
StartPublish ==
  /\ pc[Acc] = "publish"
  /\ g_listen_fd' = listen_fd
  /\ Goto(Acc, "setup")
  /\ AccIdle
  /\ UNCHANGED <<g_running, g_active_strict, active_, total_requests_,
                 pvars, avars, evars>>

\* lines 131-156: setsockopt, bind, listen; on a failure ::close(listen_fd).
StartSetup ==
  /\ pc[Acc] = "setup"
  /\ \/ Goto(Acc, "pool_start") /\ UNCHANGED <<lsock, nlclose>>
     \/ /\ Goto(Acc, "fail_store")
        /\ lsock' = "closed" /\ nlclose' = nlclose + 1
  /\ AccIdle
  /\ UNCHANGED <<gvars, pvars, avars, max_conns_, nextConn, conn, serve, discarded>>

\* lines 135-136 (147-148, 154-155): g_listen_fd.store(-1); return false;
StartFailStore ==
  /\ pc[Acc] = "fail_store"
  /\ g_listen_fd' = "-1"
  /\ Goto(Acc, "ret_false")
  /\ AccIdle
  /\ UNCHANGED <<g_running, g_active_strict, active_, total_requests_,
                 pvars, avars, evars>>

\* lines 158-159: ThreadPool pool(threads_, queue_cap_); pool.start();
StartPool ==
  /\ pc[Acc] = "pool_start"
  /\ pool_start(Acc, "loop")
  /\ UNCHANGED <<qvars, job, ok, hvars, xvars, gvars, avars, evars>>

\* line 165: while (g_running.load())
AcceptLoop ==
  /\ pc[Acc] = "loop"
  /\ Goto(Acc, IF g_running THEN "accept" ELSE "ps_exchange")
  /\ AccIdle /\ UNCHANGED svars

\* line 168: accept returns a new connection.
AcceptConn ==
  /\ pc[Acc] = "accept"
  /\ lsock = "open" /\ nextConn < NumConns
  /\ nextConn' = nextConn + 1
  /\ client_fd' = nextConn + 1
  /\ Goto(Acc, "inc_active")
  /\ AccIdle
  /\ UNCHANGED <<gvars, pvars, listen_fd, now, max_conns_, lsock, nlclose, conn,
                 serve, discarded>>

\* lines 170-178: accept fails.  With the listening socket shut down or
\* closed it fails with EINVAL or EBADF; otherwise with a transient error.
AcceptFail ==
  /\ pc[Acc] = "accept"
  /\ Goto(Acc, IF ~g_running \/ lsock # "open" THEN "ps_exchange" ELSE "loop")
  /\ AccIdle /\ UNCHANGED svars

\* line 181: g_stats.inc_active();
AcceptIncActive ==
  /\ pc[Acc] = "inc_active"
  /\ active_' = active_ + 1
  /\ Goto(Acc, "fetch_add")
  /\ AccIdle
  /\ UNCHANGED <<g_running, g_listen_fd, g_active_strict, total_requests_,
                 pvars, avars, evars>>

\* The admission test of line 184.
OverCap_late(n) == n > max_conns_ + 1
OverCap(n) == n > max_conns_

\* lines 183-184: int now = g_active_strict.fetch_add(1) + 1; if (now > max_conns_)
AcceptFetchAdd ==
  /\ pc[Acc] = "fetch_add"
  /\ g_active_strict' = g_active_strict + 1
  /\ now' = g_active_strict + 1
  /\ Goto(Acc, IF OverCap(g_active_strict + 1) THEN "busy_reply" ELSE "submit")
  /\ AccIdle
  /\ UNCHANGED <<g_running, g_listen_fd, active_, total_requests_,
                 pvars, listen_fd, client_fd, evars>>

\* lines 185-186: send_str(client_fd, "ERR server busy\n"); ::close(client_fd);
BusyReply ==
  /\ pc[Acc] = "busy_reply"
  /\ conn' = [conn EXCEPT ![client_fd] =
                [@ EXCEPT !.rejected = "ERR server busy", !.closes = @ + 1]]
  /\ Goto(Acc, "busy_dec_active")
  /\ AccIdle
  /\ UNCHANGED <<gvars, pvars, avars, lsock, nlclose, max_conns_, nextConn, serve, discarded>>

AccDecActive_forgotten(at, next) ==
  /\ pc[Acc] = at
  /\ conn' = ConnSet(client_fd, "decA", conn[client_fd].decA + 1)
  /\ Goto(Acc, next)
  /\ AccIdle
  /\ UNCHANGED <<gvars, pvars, avars, lsock, nlclose, max_conns_, nextConn,
                 serve, discarded>>

\* line 187 (202): g_stats.dec_active();
AccDecActive(at, next) ==
  /\ pc[Acc] = at
  /\ active_' = active_ - 1
  /\ conn' = ConnSet(client_fd, "decA", conn[client_fd].decA + 1)
  /\ Goto(Acc, next)
  /\ AccIdle
  /\ UNCHANGED <<g_running, g_listen_fd, g_active_strict, total_requests_,
                 pvars, avars, lsock, nlclose, max_conns_, nextConn, serve, discarded>>

\* line 188 (203): g_active_strict.fetch_sub(1); then continue (break): the
\* iteration's locals client_fd and now go out of scope.
AccDecStrict(at, next) ==
  /\ pc[Acc] = at
  /\ g_active_strict' = g_active_strict - 1
  /\ conn' = ConnSet(client_fd, "decS", conn[client_fd].decS + 1)
  /\ client_fd' = 0 /\ now' = 0
  /\ Goto(Acc, next)
  /\ AccIdle
  /\ UNCHANGED <<g_running, g_listen_fd, active_, total_requests_,
                 pvars, listen_fd, lsock, nlclose, max_conns_, nextConn, serve,
                 discarded>>

BusyDecActive == AccDecActive("busy_dec_active", "busy_dec_strict")
\* line 189: continue
BusyDecStrict == AccDecStrict("busy_dec_strict", "loop")

\* lines 192-199: bool ok = pool.submit(job); ThreadPool::submit is q_.push.
Submit ==
  /\ pc[Acc] = "submit"
  /\ \E r \in {"wait", "false", "true"} :
       /\ push(Acc, client_fd, r)
       /\ Goto(Acc, CASE r = "wait" -> "submit"
                      [] r = "true" -> "loop"
                      [] r = "false" -> "sd_reply")
       /\ IF r = "true" THEN client_fd' = 0 /\ now' = 0
          ELSE UNCHANGED <<client_fd, now>>
  /\ UNCHANGED <<job, popped, xvars, gvars, pvars, listen_fd, evars>>

\* lines 200-201: send_str(client_fd, "ERR server shutting down\n"); ::close
ShutdownReply ==
  /\ pc[Acc] = "sd_reply"
  /\ conn' = [conn EXCEPT ![client_fd] =
                [@ EXCEPT !.rejected = "ERR server shutting down",
                          !.closes = @ + 1]]
  /\ Goto(Acc, "sd_dec_active")
  /\ AccIdle
  /\ UNCHANGED <<gvars, pvars, avars, lsock, nlclose, max_conns_, nextConn, serve, discarded>>

ShutdownDecActive == AccDecActive("sd_dec_active", "sd_dec_strict")
\* line 204: break
ShutdownDecStrict == AccDecStrict("sd_dec_strict", "ps_exchange")

\* line 209: pool.stop();
StartPoolStopExchange ==
  /\ pc[Acc] = "ps_exchange"
  /\ pool_stop_exchange(Acc, "fin_exchange")
  /\ AccIdle /\ UNCHANGED <<gvars, avars, evars>>

StartPoolStopClose ==
  /\ pc[Acc] = "ps_close"
  /\ pool_stop_close(Acc)
  /\ UNCHANGED <<job, ok, hvars, xvars, svars>>

StartPoolStopJoin ==
  /\ pc[Acc] = "ps_join"
  /\ pool_stop_join(Acc, "fin_exchange")
  /\ AccIdle /\ UNCHANGED <<gvars, avars, evars>>

\* lines 212-213: int fd = g_listen_fd.exchange(-1); if (fd != -1)
FinalExchange ==
  /\ pc[Acc] = "fin_exchange"
  /\ g_listen_fd' = "-1"
  /\ Goto(Acc, IF g_listen_fd # "-1" THEN "fin_close" ELSE "fin_return")
  /\ AccIdle
  /\ UNCHANGED <<g_running, g_active_strict, active_, total_requests_,
                 pvars, avars, evars>>

\* lines 214-215: ::shutdown(fd, SHUT_RDWR); ::close(fd);
FinalClose ==
  /\ pc[Acc] = "fin_close"
  /\ lsock' = "closed" /\ nlclose' = nlclose + 1
  /\ Goto(Acc, "fin_return")
  /\ AccIdle
  /\ UNCHANGED <<gvars, pvars, avars, max_conns_, nextConn, conn, serve, discarded>>

\* line 219: return true; pool goes out of scope: ~ThreadPool calls stop(),
\* which returns at once (running_ is false), and q_ is destroyed with the
\* jobs still in it.
FinalReturn ==
  /\ pc[Acc] = "fin_return"
  /\ q_' = <<>>
  /\ discarded' = {q_[i] : i \in 1..Len(q_)}
  /\ Goto(Acc, "ret_true")
  /\ UNCHANGED <<lvars, capacity_, closed_, cv_not_full_, cv_not_empty_, job, ok,
                 hvars, xvars, gvars, pvars, avars, lsock, nlclose,
                 max_conns_, nextConn, conn, serve>>

\* ---------------------------------------------------------------- Server::stop
\* line 224: g_running.store(false);
StopStore ==
  /\ pc[Stopper] = "idle"
  /\ g_running' = FALSE
  /\ Goto(Stopper, "st_exchange")
  /\ AccIdle
  /\ UNCHANGED <<g_listen_fd, g_active_strict, active_, total_requests_,
                 pvars, avars, evars>>

\* lines 227-228: int fd = g_listen_fd.exchange(-1); if (fd != -1)
StopExchange ==
  /\ pc[Stopper] = "st_exchange"
  /\ g_listen_fd' = "-1"
  /\ Goto(Stopper, IF g_listen_fd # "-1" THEN "st_close" ELSE "st_done")
  /\ AccIdle
  /\ UNCHANGED <<g_running, g_active_strict, active_, total_requests_,
                 pvars, avars, evars>>

\* A stop() that would also close the job queue.
StopClose_queue ==
  /\ pc[Stopper] = "st_close"
  /\ lsock' = "closed" /\ nlclose' = nlclose + 1
  /\ close
  /\ Goto(Stopper, "st_done")
  /\ UNCHANGED <<job, ok, hvars, xvars>>
  /\ UNCHANGED <<gvars, pvars, avars, max_conns_, nextConn, conn, serve, discarded>>

\* lines 229-230: ::shutdown(fd, SHUT_RDWR); ::close(fd);
StopClose ==
  /\ pc[Stopper] = "st_close"
  /\ lsock' = "closed" /\ nlclose' = nlclose + 1
  /\ Goto(Stopper, "st_done")
  /\ AccIdle
  /\ UNCHANGED <<gvars, pvars, avars, max_conns_, nextConn, conn, serve, discarded>>

\* Server(port, threads, max_conns, queue_cap)
Init ==
  /\ InitCommon
  /\ capacity_ = queue_cap_
  /\ max_conns_ \in 1..MaxConnsCap

Start ==
  \/ StartSetRunning \/ StartSocket \/ StartPublish \/ StartSetup
  \/ StartFailStore \/ StartPool
  \/ AcceptLoop \/ AcceptConn \/ AcceptFail \/ AcceptIncActive \/ AcceptFetchAdd
  \/ BusyReply \/ BusyDecActive \/ BusyDecStrict
  \/ Submit
  \/ StartPoolStopExchange \/ StartPoolStopClose \/ StartPoolStopJoin
  \/ FinalExchange \/ FinalClose \/ FinalReturn

Stop == StopStore \/ StopExchange \/ StopClose

Worker(w) ==
  \/ WorkerCheck(w) \/ WorkerPop(w)
  \/ ServeBanner(w) \/ ServeLoop(w) \/ ServeDisconnect(w) \/ ServeOversize(w)
  \/ ServeEmpty(w) \/ ServeCommand(w)
  \/ JobClose(w) \/ JobDecActive(w) \/ JobDecStrict(w)

Next ==
  \/ Start
  \/ Stop
  \/ \E w \in Workers : Worker(w)
  \/ \E w \in Workers : SpuriousWakeup(w)
  \/ SpuriousWakeup(Acc)

Spec == Init /\ [][Next]_vars

\* Scheduling: a thread that can take a step of its own eventually takes it.
\* Nothing is assumed of the environment: clients need not connect, send or
\* disconnect, accept need not fail while the socket is open, wake-ups need
\* not be spurious, and stop need not be called.  accept on a listening
\* socket that has been shut down or closed returns with an error.
AcceptorRuns ==
  \/ StartSocket \/ StartPublish \/ StartSetup \/ StartFailStore \/ StartPool
  \/ AcceptLoop \/ (AcceptFail /\ lsock # "open")
  \/ AcceptIncActive \/ AcceptFetchAdd
  \/ BusyReply \/ BusyDecActive \/ BusyDecStrict
  \/ Submit
  \/ StartPoolStopExchange \/ StartPoolStopClose \/ StartPoolStopJoin
  \/ FinalExchange \/ FinalClose \/ FinalReturn
WorkerRuns(w) ==
  \/ WorkerCheck(w) \/ WorkerPop(w)
  \/ ServeBanner(w) \/ ServeLoop(w)
  \/ JobClose(w) \/ JobDecActive(w) \/ JobDecStrict(w)
StopRuns == StopExchange \/ StopClose
Fairness ==
  /\ WF_vars(AcceptorRuns)
  /\ WF_vars(StopRuns)
  /\ \A w \in Workers : WF_vars(WorkerRuns(w))

FairSpec == Spec /\ Fairness

\* Caps up to the least one with which the acceptor can find the job queue
\* full: every worker serving, the queue full, one more connection admitted.
InitFull ==
  /\ InitCommon
  /\ capacity_ = queue_cap_
  /\ max_conns_ \in 1..(threads_ + queue_cap_ + 1)

FairSpecFull == InitFull /\ [][Next]_vars /\ Fairness

\* ---------------------------------------------------------------- KVStore
\* handle_command's GET, SET and DEL on the shared store, called from the
\* workers serving several connections at once.  Each KVStore member runs
\* under mu_ and is one step.
Commands ==
  [verb : {"GET", "DEL"}, key : KVKeys, value : {NoValue}]
    \cup [verb : {"SET"}, key : KVKeys, value : KVValues]
\* kvstore.cpp lines 3-18 on map_: the new map and the value returned.
kv_set_lost(key, value) == map_
kv_set(key, value) == [map_ EXCEPT ![key] = value]
kv_get(key) == map_[key]
kv_del_keep(key) == map_
kv_del(key) == [map_ EXCEPT ![key] = NoValue]
kv_del_removed(key) == map_[key] # NoValue

\* handle_command lines 49-72: the reply for the verb and the store's answer.
ReplyOf(c) ==
  CASE c.verb = "GET" ->
         IF kv_get(c.key) = NoValue THEN <<"NOTFOUND">>
         ELSE <<"VALUE", kv_get(c.key)>>
    [] c.verb = "SET" -> <<"OK">>
    [] c.verb = "DEL" ->
         IF kv_del_removed(c.key) THEN <<"OK">> ELSE <<"NOTFOUND">>

KVOther ==
  UNCHANGED <<buffer_, received, lr_pc, out, cvars, mvars, capacity_, q_, closed_,
              cv_not_full_, cv_not_empty_, tvars, hvars, xvars, svars>>

\* The SET commands on key that have replied, as positions in log.
RepliedSets(key) ==
  {i \in 1..Len(log) : log[i].verb = "SET" /\ log[i].key = key /\ log[i].replied}
Latest(S) == IF S = {} THEN 0 ELSE CHOOSE i \in S : \A j \in S : j <= i
IssuedCommands ==
  Len(log) + Cardinality({h \in Handlers : kv_pc[h] = "called"})

\* A command line reaches handle_command on connection h; pre remembers
\* the latest SET on its key that had replied by then.
KVCall(h) ==
  /\ kv_pc[h] = "idle" /\ IssuedCommands < MaxCommands
  /\ \E c \in Commands :
       kv_cmd' = [kv_cmd EXCEPT ![h] =
                    [verb |-> c.verb, key |-> c.key, value |-> c.value,
                     pre |-> Latest(RepliedSets(c.key)), at |-> 0]]
  /\ kv_pc' = [kv_pc EXCEPT ![h] = "called"]
  /\ UNCHANGED <<map_, log>>
  /\ KVOther

\* g_kv.get / set / del, under mu_.
KVApply(h) ==
  /\ kv_pc[h] = "called"
  /\ LET c == kv_cmd[h]
     IN  /\ map_' = CASE c.verb = "SET" -> kv_set(c.key, c.value)
                       [] c.verb = "DEL" -> kv_del(c.key)
                       [] c.verb = "GET" -> map_
         /\ log' = Append(log, [verb |-> c.verb, key |-> c.key, value |-> c.value,
                                pre |-> c.pre, reply |-> ReplyOf(c),
                                replied |-> FALSE])
         /\ kv_cmd' = [kv_cmd EXCEPT ![h] = [c EXCEPT !.at = Len(log) + 1]]
  /\ kv_pc' = [kv_pc EXCEPT ![h] = "applied"]
  /\ KVOther

\* The reply is written to the connection.
KVReply(h) ==
  /\ kv_pc[h] = "applied"
  /\ log' = [log EXCEPT ![kv_cmd[h].at] = [@ EXCEPT !.replied = TRUE]]
  /\ kv_cmd' = [kv_cmd EXCEPT ![h] = NoCommand]
  /\ kv_pc' = [kv_pc EXCEPT ![h] = "idle"]
  /\ UNCHANGED map_
  /\ KVOther

InitKV == InitCommon /\ capacity_ = queue_cap_ /\ max_conns_ = 1

NextKV ==
  \/ \E h \in Handlers : KVCall(h)
  \/ \E h \in Handlers : KVApply(h)
  \/ \E h \in Handlers : KVReply(h)

SpecKV == InitKV /\ [][NextKV]_vars

\* ------------------------------------------------- serve_client, one connection
\* serve_client with the LineReader it owns, on one connection of a started
\* server; Server::stop may clear g_running at any time.

\* std::istringstream >> cmd: skip white space, then take up to white space.
IsSpace(b) == b \in {" ", "\t", CR, LF}
RECURSIVE SkipSpace(_)
SkipSpace(s) ==
  IF s # <<>> /\ IsSpace(Head(s)) THEN SkipSpace(Tail(s)) ELSE s
RECURSIVE TakeWord(_)
TakeWord(s) ==
  IF s = <<>> \/ IsSpace(Head(s)) THEN <<>> ELSE <<Head(s)>> \o TakeWord(Tail(s))
FirstWord(line) == TakeWord(SkipSpace(line))
\* lines 44-45: ::toupper on every character of cmd.
ToUpper(s) == [i \in 1..Len(s) |-> IF s[i] = "q" THEN "Q" ELSE s[i]]
QUIT == <<"Q">>
\* handle_command, lines 39-81, for the lines this alphabet can form: the
\* verb is quit or it is none of the verbs.
handle_command(line) ==
  LET cmd == ToUpper(FirstWord(line))
  IN  IF cmd = QUIT THEN "OK bye\n" ELSE "ERR unknown command\n"

HOther ==
  UNCHANGED <<kvars, mvars, capacity_, q_, closed_, cv_not_full_, cv_not_empty_,
              tvars, hvars, xvars, g_listen_fd, g_active_strict, active_,
              pvars, avars, evars>>

\* What serve_client does after send_str of the banner returned r.
AfterBanner(r) == "loop"

\* line 88: send_str(fd, "OK tcp-kv ready\n"); the write succeeds or fails
\* and the value returned is dropped.
HBanner ==
  /\ h_pc = "idle" /\ pc[Acc] # "idle"
  /\ \E r \in {"true", "false"} : h_pc' = AfterBanner(r)
  /\ UNCHANGED <<buffer_, received, lr_pc, out, handled, banner, g_running,
                 total_requests_>>
  /\ HOther

\* The same step, with the value send_str returned kept in banner.
HBannerResult ==
  /\ h_pc = "idle" /\ pc[Acc] # "idle"
  /\ \E r \in {"true", "false"} :
       /\ banner' = r
       /\ h_pc' = AfterBanner(r)
  /\ UNCHANGED <<buffer_, received, lr_pc, out, handled, g_running, total_requests_>>
  /\ HOther

\* lines 90-91: while (g_running.load()) lr.read_line(fd)
HLoop ==
  /\ h_pc = "loop"
  /\ IF g_running THEN h_pc' = "reading" /\ lr_pc' = "find"
     ELSE h_pc' = "ended" /\ UNCHANGED lr_pc
  /\ UNCHANGED <<buffer_, received, out, handled, banner, g_running, total_requests_>>
  /\ HOther

Did(line, disp, reply, cont) ==
  [line |-> line, dispatched |-> disp, reply |-> reply, continues |-> cont]

\* line 106: if (resp == "OK bye\n") return;
ContinuesAfter_always(resp) == TRUE
ContinuesAfter(resp) == resp # "OK bye\n"

\* lines 92-107: what serve_client does with the value read_line returned.
HReact ==
  /\ h_pc = "reading" /\ lr_pc \in {"idle", "end"}
  /\ LET line_opt == out[Len(out)]
         line == line_opt.value
     IN  \E sent_ok \in BOOLEAN :
           LET resp == handle_command(line)
               did ==
                 IF ~line_opt.has_value THEN Did(line, FALSE, "", FALSE)
                 ELSE IF line = LINE_TOO_LONG
                   THEN Did(line, FALSE, "ERR line too long\n", FALSE)
                 ELSE IF line = <<>> THEN Did(line, FALSE, "", TRUE)
                 ELSE IF ~sent_ok THEN Did(line, TRUE, "", FALSE)
                 ELSE Did(line, TRUE, resp, ContinuesAfter(resp))
           IN  /\ handled' = Append(handled, did)
               /\ total_requests_' = total_requests_ + (IF did.dispatched THEN 1 ELSE 0)
               /\ h_pc' = IF did.continues THEN "loop" ELSE "ended"
  /\ UNCHANGED <<buffer_, received, lr_pc, out, banner, g_running>>
  /\ HOther

\* read_line's steps, taken while serve_client is inside the call.
HRead == h_pc = "reading" /\ (LRFind \/ LRRecv \/ LRRecvNone)

InitH == InitCommon /\ capacity_ = queue_cap_ /\ max_conns_ = 1

NextH ==
  \/ StartSetRunning
  \/ StopStore
  \/ HBanner
  \/ HLoop
  \/ HRead
  \/ HReact

SpecH == InitH /\ [][NextH]_vars

\* serve_client on one connection, with the outcome of the banner recorded.
NextB ==
  \/ StartSetRunning
  \/ StopStore
  \/ HBannerResult
  \/ HLoop
  \/ HRead
  \/ HReact

SpecB == InitH /\ [][NextB]_vars

\* ------------------------------------------------- main.cpp beside server.cpp
\* The monolithic server's serve_client (main.cpp 277-300) fed the input of
\* the connection that server.cpp's serve_client serves.  main.cpp's
\* LineReader (115-156) and handle_command (302-356) are the text of
\* protocol.cpp's read_line and server.cpp's handle_command, so on the same
\* bytes read_line returns the same values: the k-th value is out[k].
\* Neither server is stopped.
MOther ==
  UNCHANGED <<buffer_, received, lr_pc, out, cvars, kvars, capacity_, q_, closed_,
              cv_not_full_, cv_not_empty_, tvars, hvars, xvars, svars>>

\* main.cpp 278-281: LineReader lr(8192); send_str(fd, "OK tcp-kv ready\n");
MBanner ==
  /\ m_pc = "idle" /\ pc[Acc] # "idle"
  /\ m_pc' = "loop"
  /\ UNCHANGED m_handled
  /\ MOther

\* main.cpp 298-299: after a response has been written the loop goes on.
MContinuesAfter(resp) == TRUE

\* main.cpp 283-299: one turn of while (running_.load()): read_line and what
\* is done with the value it returned.
MReact ==
  /\ m_pc = "loop" /\ g_running
  /\ Len(m_handled) < Len(out)
  /\ LET line_opt == out[Len(m_handled) + 1]
         line == line_opt.value
     IN  \E sent_ok \in BOOLEAN :
           LET resp == handle_command(line)
               did ==
                 IF ~line_opt.has_value THEN Did(line, FALSE, "", FALSE)
                 ELSE IF line = LINE_TOO_LONG
                   THEN Did(line, FALSE, "ERR line too long\n", FALSE)
                 ELSE IF line = <<>> THEN Did(line, FALSE, "", TRUE)
                 ELSE IF ~sent_ok THEN Did(line, TRUE, "", FALSE)
                 ELSE Did(line, TRUE, resp, MContinuesAfter(resp))
           IN  /\ m_handled' = Append(m_handled, did)
               /\ m_pc' = IF did.continues THEN "loop" ELSE "ended"
  /\ MOther

NextM ==
  \/ StartSetRunning
  \/ HBanner
  \/ HLoop
  \/ HRead
  \/ HReact
  \/ MBanner
  \/ MReact

SpecM == InitH /\ [][NextM]_vars

\* ---------------------------------------------------------------- queue claims
Range(s) == {s[i] : i \in 1..Len(s)}
NoDuplicates(s) == \A i, j \in 1..Len(s) : s[i] = s[j] => i = j

\* C5: under any interleaving of push, pop and close the number of buffered
\* items never exceeds the capacity, and every successful pop returns an item
\* of exactly one earlier successful push: no item is popped twice and no
\* popped item was never pushed.
C5_BoundedNoDupNoInvent ==
  /\ Len(q_) <= capacity_
  /\ NoDuplicates(popped)
  /\ Range(popped) \subseteq Range(pushed)
  /\ Len(popped) <= Len(pushed)

\* The queue is full again after a pop, and a producer has been suspended
\* on the full queue.
C5_Witness ==
  /\ Len(q_) = capacity_
  /\ Len(popped) >= 1
  /\ \E t \in Producers : suspended[t]

\* C6: FIFO: for every k the k-th successful pop returns the item of the
\* k-th successful push, with several producers and consumers.
C6_Fifo ==
  /\ Len(popped) <= Len(pushed)
  /\ \A k \in 1..Len(popped) : popped[k] = pushed[k]

\* Two pops have succeeded, two consumers hold a popped item, both
\* producers have pushed and two items were buffered together.
C6_Witness ==
  /\ Len(popped) >= 2
  /\ Len(pushed) >= 3
  /\ \E c, d \in Consumers : c # d /\ job[c] # <<>> /\ job[d] # <<>>
  /\ \A t \in Producers : ok[t]

\* C7: closed_ never goes back to false; once closed, the queue never
\* grows and a push that returns returns false (also one that was suspended
\* on a full queue); pop returns the front item whenever one is buffered,
\* closed or not, and nullopt only when the queue is closed and empty.
C7_Closure ==
  [][ /\ (closed_ => closed_')
      /\ (closed_ => (q_' = q_ \/ (q_ # <<>> /\ q_' = Tail(q_))))
      /\ \A t \in Producers :
            (closed_ /\ pc[t] = "push" /\ pc'[t] = "idle") => ~ok'[t]
      /\ \A t \in Consumers :
            /\ (pc[t] = "pop" /\ pc'[t] = "done") => (closed_ /\ q_ = <<>>)
            /\ (pc[t] = "pop" /\ pc'[t] = "idle") =>
                  (q_ # <<>> /\ job'[t] = <<Head(q_)>> /\ q_' = Tail(q_))
            /\ (pc[t] = "pop" /\ q_ # <<>> /\ job'[t] # job[t]) =>
                  pc'[t] = "idle"
    ]_vars

\* After close: a producer that had been suspended on the full queue has
\* returned false although there is room again, a consumer has popped an
\* item that was buffered at close, and another has got nullopt.
C7_Witness ==
  /\ closed_
  /\ Len(q_) < capacity_
  /\ \E t \in Producers : suspended[t] /\ pc[t] = "idle" /\ ~ok[t]
  /\ \E t \in Consumers : pc[t] = "done"
  /\ Len(popped) = Len(pushed) /\ Len(pushed) >= 2

\* ---------------------------------------------------------------- server claims
\* Positions of a worker inside the job lambda: in serve_client, and up to
\* each of the three closing statements.
ServePcs == {"w_run", "j_loop", "j_read"}
JobPcs == ServePcs \cup {"j_close", "j_dec_active", "j_dec_strict"}
Serving == {w \in Workers : pc[w] \in ServePcs}
InJob == {w \in Workers : pc[w] \in JobPcs}
Accepted == 1..nextConn
BusyPcs == {"busy_reply", "busy_dec_active", "busy_dec_strict"}
StartReturned == pc[Acc] \in {"ret_true", "ret_false"}

\* C1: the strict admission counter never exceeds max_conns + 1; a
\* connection whose post-increment reading is greater than max_conns is never
\* submitted to the pool and is rejected with "ERR server busy"; the
\* connections queued or being served never number more than max_conns.
C1_AdmissionCap ==
  /\ g_active_strict <= max_conns_ + 1
  /\ (pc[Acc] = "submit" => now <= max_conns_)
  /\ (pc[Acc] \in BusyPcs => now > max_conns_ /\ client_fd \notin Range(pushed))
  /\ (pc[Acc] \in BusyPcs \ {"busy_reply"} =>
        conn[client_fd].rejected = "ERR server busy")
  /\ \A c \in Range(pushed) : conn[c].rejected = "no"
  /\ Len(q_) + Cardinality(InJob) <= max_conns_

\* With max_conns connections queued or served, one more has been accepted,
\* read max_conns + 1 and been answered "ERR server busy".
C1_Witness ==
  /\ pc[Acc] = "busy_dec_active"
  /\ g_active_strict = max_conns_ + 1
  /\ conn[client_fd].rejected = "ERR server busy"
  /\ Len(q_) + Cardinality(InJob) = max_conns_
  /\ Len(q_) = 1

\* C2: every accepted connection handle is closed exactly once: never
\* twice, and once start() has returned none is left open, also when stop
\* is requested while connections are queued or being served.
C2_ClosedExactlyOnce ==
  /\ \A c \in Accepted : conn[c].closes <= 1
  /\ (pc[Acc] = "ret_true" => \A c \in Accepted : conn[c].closes = 1)

\* C3: for every job a worker executes, however serve_client ends, the
\* worker closes the handle and decrements Stats.active and the strict
\* counter exactly once each, in that order; for every connection the acceptor
\* rejects, the acceptor does the same exactly once.
Released(c, k1, k2, k3) ==
  conn[c].closes = k1 /\ conn[c].decA = k2 /\ conn[c].decS = k3
C3_ReleaseExactlyOnce ==
  /\ \A w \in Workers :
       /\ pc[w] \in ServePcs \cup {"j_close"} => Released(Served(w), 0, 0, 0)
       /\ pc[w] = "j_dec_active" => Released(Served(w), 1, 0, 0)
       /\ pc[w] = "j_dec_strict" => Released(Served(w), 1, 1, 0)
       /\ pc[w] = "j_close" => serve[w].ended # "no"
  /\ \A c \in Range(popped) :
       (\A w \in InJob : Served(w) # c) => Released(c, 1, 1, 1)
  /\ \A c \in Accepted :
       conn[c].rejected # "no" =>
         IF c = client_fd /\ pc[Acc] \in {"busy_dec_active", "sd_dec_active"}
           THEN Released(c, 1, 0, 0)
         ELSE IF c = client_fd /\ pc[Acc] \in {"busy_dec_strict", "sd_dec_strict"}
           THEN Released(c, 1, 1, 0)
         ELSE Released(c, 1, 1, 1)

\* A serve_client call has returned on a failed reply write and its job is
\* about to release the connection, after an earlier job has released its
\* connection and after the acceptor has rejected and released another one.
C3_Witness ==
  /\ \E w \in Workers :
       /\ pc[w] = "j_close"
       /\ serve[w].ended = "write failed"
       /\ Released(Served(w), 0, 0, 0)
  /\ \E c \in Accepted :
       conn[c].rejected = "ERR server busy" /\ c # client_fd /\ Released(c, 1, 1, 1)
  /\ \E c \in Range(popped) : Released(c, 1, 1, 1)

\* C4 as claimed: Stats.active equals the number of connection handlers
\* executing plus the number of jobs buffered in the queue, and is never
\* negative.
C4_ActiveIsServingPlusQueued ==
  /\ active_ = Cardinality(Serving) + Len(q_)
  /\ active_ >= 0

\* C4 amended: Stats.active equals the jobs a worker has dequeued and not
\* yet taken through dec_active, plus the jobs buffered in the queue, plus the
\* connection the acceptor has counted and neither enqueued nor un-counted
\* yet, plus the jobs destroyed unexecuted with the queue; never negative.
AcceptorCounted ==
  IF pc[Acc] \in {"fetch_add", "busy_reply", "busy_dec_active", "submit",
                  "sd_reply", "sd_dec_active"}
    THEN 1 ELSE 0
WorkerCounted ==
  Cardinality({w \in Workers : pc[w] \in JobPcs \ {"j_dec_strict"}})
C4_ActiveAccounting ==
  /\ active_ = WorkerCounted + Len(q_) + AcceptorCounted + Cardinality(discarded)
  /\ active_ >= 0

\* Stats.active counts a served connection, a queued one and the one the
\* acceptor is about to reject.
C4_Witness ==
  /\ active_ = 3
  /\ Cardinality(Serving) = 1 /\ Len(q_) = 1 /\ pc[Acc] = "busy_reply"

\* ------------------------------------------------------- ThreadPool claims
\* C8: once a call of ThreadPool::stop has returned to any caller, no worker
\* thread is alive, the queue is closed, and no submit called afterwards
\* returns true.
C8_StopPostcondition ==
  StopReturned =>
    /\ \A w \in Workers : ~Alive(w)
    /\ closed_
    /\ \A t \in Submitters : after_stop[t] => ~ok[t]

\* What the code does guarantee: the caller whose exchange saw running_ true
\* returns only after close and after every worker has exited.
C8_WinnerPostcondition ==
  \A s \in StopCallers :
    (pc[s] = "stopped" /\ pc[PoolOwner] = "started" /\ workers_ = {}) =>
      closed_ /\ \A w \in Workers : ~Alive(w)

\* ------------------------------------------------------- LineReader claims
\* The '\n'-terminated segments of a byte sequence, without the '\n'.
RECURSIVE RawLines(_)
RawLines(s) ==
  LET pos == find_LF(s)
  IN  IF pos = 0 THEN <<>>
      ELSE <<SubSeq(s, 1, pos - 1)>> \o RawLines(SubSeq(s, pos + 1, Len(s)))

EndsWith(s, b) == s # <<>> /\ s[Len(s)] = b
\* The characters of a line: what precedes its terminator, "\n" or "\r\n".
Chars(raw) == IF EndsWith(raw, CR) THEN SubSeq(raw, 1, Len(raw) - 1) ELSE raw
\* The k-th call of read_line has returned and the k-th line has arrived.
Answered == {k \in 1..Len(out) : k <= Len(RawLines(received))}
IsLine(k) == out[k].has_value /\ out[k].value # LINE_TOO_LONG

\* C9: a line of exactly max_line_ characters is returned as that line and a
\* line of max_line_ + 1 characters yields the sentinel, whether it ends
\* with "\n" or "\r\n" and however recv splits the stream.
C9_Boundary ==
  \A k \in Answered :
    LET chars == Chars(RawLines(received)[k])
    IN  /\ Len(chars) = max_line_ => out[k] = Some(chars)
        /\ Len(chars) = max_line_ + 1 => out[k] = Some(LINE_TOO_LONG)

\* What the code does guarantee at the boundary: the claim for lines ended by
\* a bare "\n", and the max_line_ + 1 half for both terminators.
C9_BoundaryHeld ==
  \A k \in Answered :
    LET raw == RawLines(received)[k]
    IN  /\ (Len(raw) = max_line_ /\ ~EndsWith(raw, CR)) => out[k] = Some(raw)
        /\ Len(Chars(raw)) = max_line_ + 1 => out[k] = Some(LINE_TOO_LONG)

\* C10 as stated: a returned line contains no '\n' and does not end with
\* '\r'.
C10_NoLfNoTrailingCr ==
  \A k \in 1..Len(out) :
    IsLine(k) => \A i \in 1..Len(out[k].value) : out[k].value[i] # LF
                 /\ ~EndsWith(out[k].value, CR)

\* C10: a returned line contains no '\n'; it is the bytes before the
\* terminating '\n' with one trailing '\r', if there is one, removed, so it
\* ends with '\r' exactly when those bytes end with "\r\r".
C10_NoLfOneCrStripped ==
  \A k \in 1..Len(out) :
    IsLine(k) =>
      /\ k \in Answered
      /\ \A i \in 1..Len(out[k].value) : out[k].value[i] # LF
      /\ out[k].value = Chars(RawLines(received)[k])
      /\ EndsWith(out[k].value, CR) <=>
           LET raw == RawLines(received)[k]
           IN  Len(raw) >= 2 /\ raw[Len(raw)] = CR /\ raw[Len(raw) - 1] = CR

\* A line ended by "\r\n" has been returned without its '\r', and a line
\* has been returned that ends with a '\r' of its own.
C10_Witness ==
  /\ \E k \in 1..Len(out) :
       IsLine(k) /\ EndsWith(RawLines(received)[k], CR)
                 /\ ~EndsWith(out[k].value, CR) /\ out[k].value # <<>>
  /\ \E k \in 1..Len(out) : IsLine(k) /\ EndsWith(out[k].value, CR)

\* ------------------------------------------------------- serve_client claims
\* The bytes received after the last '\n'.
RECURSIVE Unterminated(_)
Unterminated(s) ==
  LET pos == find_LF(s)
  IN  IF pos = 0 THEN s ELSE Unterminated(SubSeq(s, pos + 1, Len(s)))

\* The k-th line the client sent: its characters if it is complete, else the
\* bytes of the line still being sent.
SentLine(k) ==
  IF k <= Len(RawLines(received)) THEN Chars(RawLines(received)[k])
  ELSE Unterminated(received)

Wrote(k, reply) == handled[k].reply = reply

\* C11: "ERR line too long" is written only for a line longer than
\* max_line_; every complete non-empty line of at most max_line_ characters
\* is dispatched to handle_command as it was sent; a dispatched line whose
\* verb is unknown is answered "ERR unknown command" and the connection
\* continues.
C11_OversizeOnlyTooLong ==
  \A k \in 1..Len(handled) :
    /\ Wrote(k, "ERR line too long\n") => Len(SentLine(k)) > max_line_
    /\ (k <= Len(RawLines(received)) /\ SentLine(k) # <<>>
          /\ Len(SentLine(k)) <= max_line_) =>
         handled[k].dispatched /\ handled[k].line = SentLine(k)
    /\ (handled[k].dispatched /\ handled[k].reply # ""
          /\ ToUpper(FirstWord(handled[k].line)) # QUIT) =>
         Wrote(k, "ERR unknown command\n") /\ handled[k].continues

\* What the code does guarantee: the same, for lines other than the text of
\* the sentinel and other than a line of max_line_ characters ended "\r\n".
C11_Held ==
  \A k \in 1..Len(handled) :
    (/\ SentLine(k) # LINE_TOO_LONG
     /\ ~(/\ k <= Len(RawLines(received))
          /\ Len(SentLine(k)) = max_line_
          /\ EndsWith(RawLines(received)[k], CR))) =>
      /\ Wrote(k, "ERR line too long\n") => Len(SentLine(k)) > max_line_
      /\ (k <= Len(RawLines(received)) /\ SentLine(k) # <<>>
            /\ Len(SentLine(k)) <= max_line_) =>
           handled[k].dispatched /\ handled[k].line = SentLine(k)
      /\ (handled[k].dispatched /\ handled[k].reply # ""
            /\ ToUpper(FirstWord(handled[k].line)) # QUIT) =>
           Wrote(k, "ERR unknown command\n") /\ handled[k].continues

\* C12: once "OK bye" has been written on the connection, serve_client has
\* ended: no further line is read, dispatched, counted in total_requests_
\* or answered, also when lines are buffered behind the quit.
ByeWritten == \E k \in 1..Len(handled) : Wrote(k, "OK bye\n")
C12_QuitEnds ==
  [][ByeWritten =>
       /\ h_pc = "ended"
       /\ UNCHANGED <<h_pc, handled, total_requests_, out, buffer_, received>>]_vars

\* "OK bye" has been written after an earlier command was answered, and a
\* complete line is buffered behind the quit.
C12_Witness ==
  /\ ByeWritten
  /\ Len(handled) >= 2 /\ handled[1].dispatched
  /\ find_LF(buffer_) # 0
  /\ h_pc = "ended"

\* ---------------------------------------------------------------- KVStore claims
\* Store operations on the key of log[j] that took effect after position i
\* and before j.
Between(i, j, verbs) ==
  {n \in (i + 1)..(j - 1) : log[n].key = log[j].key /\ log[n].verb \in verbs}
Gets == {j \in 1..Len(log) : log[j].verb = "GET" /\ log[j].pre # 0}

\* C13 as stated: a GET k that starts after a SET k v has replied returns
\* the value of that SET or of a later SET on k, never NOTFOUND, and
\* exactly v when no SET or DEL on k intervenes.
C13_GetSeesSet ==
  \A j \in Gets :
    /\ \E n \in {log[j].pre} \cup Between(log[j].pre, j, {"SET"}) :
         log[j].reply = <<"VALUE", log[n].value>>
    /\ Between(log[j].pre, j, {"SET", "DEL"}) = {} =>
         log[j].reply = <<"VALUE", log[log[j].pre].value>>

\* C13: a GET k that starts after a SET k v has replied returns what the
\* last SET or DEL on k before it left: the value of that SET or of a later
\* SET, or NOTFOUND when a DEL k is the last of them; exactly v when no SET
\* or DEL on k intervenes; never an older value.
C13_GetSeesLastWrite ==
  \A j \in Gets :
    LET last == Latest({log[j].pre} \cup Between(log[j].pre, j, {"SET", "DEL"}))
    IN  log[j].reply = IF log[last].verb = "DEL" THEN <<"NOTFOUND">>
                       ELSE <<"VALUE", log[last].value>>

\* A GET issued after a SET k v had replied has been answered with the
\* different value of a later SET on k.
C13_Witness ==
  \E j \in Gets :
    /\ log[j].replied
    /\ Between(log[j].pre, j, {"SET"}) # {}
    /\ log[j].reply # <<"VALUE", log[log[j].pre].value>>
    /\ log[j].reply # <<"NOTFOUND">>

\* The DEL commands on the key of the SET at log[i] that took effect after
\* it and before the next SET on that key.
DelsAfterSet(i) ==
  {n \in (i + 1)..Len(log) :
     /\ log[n].verb = "DEL" /\ log[n].key = log[i].key
     /\ \A x \in (i + 1)..(n - 1) : ~(log[x].verb = "SET" /\ log[x].key = log[i].key)}
Earliest(S) == CHOOSE i \in S : \A j \in S : i <= j

\* C14: of the DEL k commands that follow a SET k before the next SET k,
\* issued on one connection or concurrently on several, the first replies
\* OK and every other replies NOTFOUND.
C14_OneDelSucceeds ==
  \A i \in 1..Len(log) :
    log[i].verb = "SET" =>
      \A n \in DelsAfterSet(i) :
        log[n].reply = IF n = Earliest(DelsAfterSet(i)) THEN <<"OK">>
                       ELSE <<"NOTFOUND">>

\* Two connections have run DEL on a present key at the same time; one was
\* answered OK and the other NOTFOUND.
C14_Witness ==
  \E g, h \in Handlers :
    /\ g # h /\ kv_pc[g] = "applied" /\ kv_pc[h] = "applied"
    /\ kv_cmd[g].verb = "DEL" /\ kv_cmd[h].verb = "DEL"
    /\ kv_cmd[g].key = kv_cmd[h].key
    /\ log[kv_cmd[g].at].reply = <<"OK">>
    /\ log[kv_cmd[h].at].reply = <<"NOTFOUND">>
    /\ \E i \in 1..Len(log) : {kv_cmd[g].at, kv_cmd[h].at} \subseteq DelsAfterSet(i)

\* ---------------------------------------------------------------- shutdown claims
InAcceptLoop ==
  pc[Acc] \in {"loop", "accept", "inc_active", "fetch_add", "submit"} \cup BusyPcs
\* stop() has been called after start() set g_running.
StopCalled == pc[Stopper] # "idle" /\ pc[Acc] # "idle" /\ ~g_running

\* C15: once stop() has been called on a server whose start() is in its
\* accept loop, the loop eventually exits, wherever the acceptor is:
\* blocked in accept, between accept and submit, or blocked in submit on a
\* full job queue.
C15_StopEndsAcceptLoop == (StopCalled /\ InAcceptLoop) ~> ~InAcceptLoop

\* What the code does guarantee: the same, for an acceptor that is not
\* suspended in push on the full queue.
C15_Held ==
  (StopCalled /\ InAcceptLoop) ~> (~InAcceptLoop \/ Acc \in cv_not_full_)

\* C16: when stop() is called while an admitted connection is being served,
\* and its client neither sends nor closes, the server still ends the
\* connection, the workers are joined and start() returns.
C16_IdleShutdownReturns == (StopCalled /\ Serving # {}) ~> StartReturned

\* What the code does guarantee: after stop(), start() returns unless a
\* worker stays blocked reading from its client or the acceptor stays
\* suspended on the full queue.
C16_Held ==
  StopCalled ~>
    \/ StartReturned
    \/ \E w \in Workers : pc[w] = "j_read"
    \/ Acc \in cv_not_full_

\* ---------------------------------------------------------------- admission claims
\* Connections that were admitted and whose slot has not been given back.
SlotHolders == {c \in Range(pushed) : conn[c].decS = 0}
\* A worker whose serve_client has returned and whose job has not finished.
Ending(w) == pc[w] \in {"j_close", "j_dec_active", "j_dec_strict"}

\* C17: once the serving of an admitted connection has ended (client
\* closed, quit, oversize line, failed write) g_active_strict is eventually
\* decremented for it (the worker does not stay in the rest of the job for
\* ever, and leaves it with the decrement done); and the acceptor takes the busy path only when
\* max_conns_ connections hold a slot, so a connection accepted after the
\* decrement is admitted.
C17_SlotReleased ==
  /\ \A w \in Workers : []<>(~Ending(w))
  /\ [][\A w \in Workers : (Ending(w) /\ ~Ending(w)') =>
                              conn'[Served(w)].decS = 1]_vars
  /\ [][(pc[Acc] = "fetch_add" /\ pc'[Acc] = "busy_reply") =>
          Cardinality(SlotHolders) >= max_conns_]_vars

\* With a cap of one: a connection was admitted, the next was rejected as
\* busy, the first ended and gave its slot back, and the one accepted after
\* that has been admitted.
C17_Witness ==
  /\ max_conns_ = 1
  /\ Len(pushed) = 2
  /\ conn[pushed[1]].decS = 1
  /\ \E c \in Accepted :
       conn[c].rejected = "ERR server busy" /\ pushed[1] < c /\ c < pushed[2]

\* ---------------------------------------------------------------- queue closure
ShutdownPcs == {"sd_reply", "sd_dec_active", "sd_dec_strict"}
ToldShuttingDown ==
  {c \in Accepted : conn[c].rejected = "ERR server shutting down"}

ClosingStopReturned ==
  /\ closed_ /\ workers_ = {} /\ pc[PoolOwner] = "started"
  /\ \E s \in StopCallers : pc[s] = "stopped"

\* C19: a job in the queue when ThreadPool::stop closes it is never taken by
\* a worker (a push after close fails, so every pop that follows the close
\* takes such a job), and when that stop returns no worker holds a job that
\* it has dequeued and not finished.
C19_BufferedDropped ==
  [][/\ closed_ => popped' = popped
     /\ ClosingStopReturned => \A w \in Workers : job[w] = <<>>]_vars

\* The part the code keeps: the closing stop returns only after every
\* dequeued job has run to completion.
C19_Held == ClosingStopReturned => \A w \in Workers : job[w] = <<>>

\* ---------------------------------------------------------------- listening socket
\* start() has returned after creating the socket, and stop() is not in
\* progress.
ListenerDone ==
  /\ StartReturned /\ lsock # "none"
  /\ pc[Stopper] \in {"idle", "st_done"}

\* C20: ::close is called on the listening socket at most once, and exactly
\* once by the time start() has returned and no stop() is in progress,
\* wherever stop() fell among the steps of start().
C20_ClosedOnce ==
  /\ nlclose <= 1
  /\ ListenerDone => nlclose = 1

\* On the paths that go through an exchange on g_listen_fd (the accept loop
\* and the final shutdown path) the socket is closed exactly once.
C20_Held ==
  (pc[Acc] = "ret_true" /\ pc[Stopper] \in {"idle", "st_done"}) => nlclose = 1

\* ---------------------------------------------------------------- close and waiters
InPush(t) == pc[t] = "push"
InPop(t) == pc[t] = "pop"

\* C21: once the queue is closed no thread stays inside push or pop (a
\* thread that was blocked returns); a push that returns then returns false
\* and a pop that returns gives a buffered item or nothing; and a close on a
\* closed queue changes nothing in the queue.
C21_CloseWakesAll ==
  /\ \A t \in Producers : []<>(~(closed_ /\ InPush(t)))
  /\ \A t \in Consumers : []<>(~(closed_ /\ InPop(t)))
  /\ [][closed_ =>
          /\ closed_' /\ cv_not_full_' = {} /\ cv_not_empty_' = {}
          /\ \A t \in Producers : (InPush(t) /\ ~InPush(t)') => ~ok'[t]
          /\ \A t \in Consumers : (InPop(t) /\ ~InPop(t)') =>
                \/ pc'[t] = "done" /\ job'[t] = <<>> /\ q_ = <<>>
                \/ pc'[t] = "idle" /\ job'[t] = <<Head(q_)>>
          /\ CloserClose => UNCHANGED qvars]_vars

\* The queue is closed; a producer that had been suspended in push has
\* returned false and a consumer that had been suspended in pop has
\* returned without an item.
C21_Witness ==
  /\ closed_
  /\ \E t \in Producers : suspended[t] /\ pc[t] = "idle" /\ ~ok[t]
  /\ \E t \in Consumers : suspended[t] /\ pc[t] = "done"

\* ---------------------------------------------------------------- backpressure
\* The condition a thread inside push (pop) waits for, on an open queue.
HasRoom == ~closed_ /\ Len(q_) < capacity_
HasItem == ~closed_ /\ q_ # <<>>

\* C22: on an open queue no thread stays inside push while there is room,
\* nor inside pop while there is an item, whatever the number of producers
\* and consumers: a pop that makes room wakes a suspended producer and a
\* push wakes a suspended consumer.  A push that returns on an open queue
\* returns true, and a pop that returns on an open queue returns an item.
C22_NoLostWakeup ==
  /\ \A t \in Producers : []<>(~(InPush(t) /\ HasRoom))
  /\ \A t \in Consumers : []<>(~(InPop(t) /\ HasItem))
  /\ [][~closed_ =>
          /\ \A t \in Producers : (InPush(t) /\ ~InPush(t)') => ok'[t]
          /\ \A t \in Consumers : (InPop(t) /\ ~InPop(t)') =>
                job'[t] = <<Head(q_)>>]_vars

\* On an open queue, a producer that had been suspended on the full queue
\* has returned true and a consumer that had been suspended on the empty
\* queue has returned with an item, with a second consumer inside pop.
C22_Witness ==
  /\ ~closed_
  /\ \E t \in Producers : suspended[t] /\ pc[t] = "idle" /\ ok[t]
  /\ \E t, u \in Consumers :
        t # u /\ suspended[t] /\ pc[t] = "idle" /\ job[t] # <<>> /\ InPop(u)

\* ---------------------------------------------------------------- banner
\* C23: when the write of the banner has failed, serve_client has not called
\* read_line, has dispatched no command and has not incremented
\* total_requests.
C23_BannerFailureAbandons ==
  banner = "false" =>
    /\ h_pc \notin {"reading"}
    /\ out = <<>> /\ received = <<>>
    /\ handled = <<>>
    /\ total_requests_ = 0

\* ---------------------------------------------------------------- two servers
\* The write of the response to the k-th value succeeded in both servers
\* (or no command was dispatched for it).
BothWrote(k) ==
  /\ handled[k].dispatched => handled[k].reply # ""
  /\ m_handled[k].dispatched => m_handled[k].reply # ""

\* C24: on the same input the two servers do the same with every value
\* read_line returns: the same line is dispatched or not (and counted in
\* total_requests), the same reply is written, and the connection ends at
\* the same point.
C24_SameSemantics ==
  \A k \in 1..Len(handled) :
    (k <= Len(m_handled) /\ BothWrote(k)) => m_handled[k] = handled[k]

\* What the two servers share: the same lines are dispatched and the same
\* replies written, for as long as server.cpp's serve_client goes on.
C24_Held ==
  \A k \in 1..Len(handled) :
    (k <= Len(m_handled) /\ BothWrote(k)) =>
      /\ m_handled[k].line = handled[k].line
      /\ m_handled[k].dispatched = handled[k].dispatched
      /\ m_handled[k].reply = handled[k].reply

\* ---------------------------------------------------------------- stop requests
\* C25: once a call of stop() has returned, start() accepts no connection,
\* whenever the call was made: before start() sets g_running, between that
\* and the store of the listening socket, or during the accept loop.
C25_StopNotLost ==
  [][pc[Stopper] = "st_done" => nextConn' = nextConn]_vars

\* What the code does guarantee: the same for a stop() whose store to
\* g_running was not overwritten by start().
C25_Held ==
  [][(pc[Stopper] = "st_done" /\ ~g_running) => nextConn' = nextConn]_vars
====
